---- MODULE Spec2Model ----
(***************************************************************************)
(* A model of the profile lifecycle commands (console/profile.rs) and of   *)
(* the 7-Zip component (components/_7zip.rs) of PWAsForFirefox.            *)
(*                                                                         *)
(* The state file is the variable `file`.  Every command is one action:    *)
(* it loads the file, works on the in-memory Storage, and leaves in `last` *)
(* a record of the call: its arguments, the Storage it loaded (`pre`), its *)
(* result (`res`) and the sequence of calls it made on the file system,    *)
(* the terminal and the integrations collaborator (`events`).  A failure   *)
(* of the terminal itself (flush, read_line) is not modelled.  The process *)
(* of a command ends (Exit) before the next command starts.                *)
(*                                                                         *)
(* Detection (_7Zip::new) reads the environment `env` and leaves its       *)
(* result in `zip`; install and run are called on the detected descriptor  *)
(* and leave their result and their calls in `zlast`.  They are checked    *)
(* under their own specification, SpecZip.                                 *)
(*                                                                         *)
(* Two instances of the utility that run at the same time are the          *)
(* processes of `conc`, under SpecConc: the load and the write of a        *)
(* command are separate steps there, and the steps of the two interleave.  *)
(***************************************************************************)
EXTENDS Integers, Sequences, FiniteSets, TLC

VARIABLES file, last, env, zip, zlast, conc

vars == <<file, last, env, zip, zlast, conc>>

(***************************************************************************)
(* Bounds.                                                                 *)
(***************************************************************************)
MaxProfiles == 1      \* identifiers of non-nil profiles: 1..MaxProfiles
MaxSites == 2         \* identifiers of sites: 1..MaxSites
MaxPathLen == 2       \* directories in the PATH variable

(***************************************************************************)
(* Identifiers and optional values.                                        *)
(***************************************************************************)
Nil == 0

ProfileIds == 0..MaxProfiles

SiteIds == 1..MaxSites

None == <<>>

Some(x) == <<x>>

IsSome(o) == Len(o) = 1

OptNames == {None, Some("Work")}

OptDescriptions == {None, Some("Notes")}

(***************************************************************************)
(* Storage: profiles is a map from identifier to Profile, sites a map from *)
(* identifier to Site.  A Site's fields are opaque to these commands, so   *)
(* the sites map is modelled by its key set.                               *)
(***************************************************************************)
ProfileNew(ulid, name, description) ==
    [ulid |-> ulid, name |-> name, description |-> description, sites |-> {}]

Insert(map, key, value) ==
    [k \in (DOMAIN map) \cup {key} |-> IF k = key THEN value ELSE map[k]]

MapRemove(map, key) == [k \in (DOMAIN map) \ {key} |-> map[k]]

StorageDefault ==
    [profiles |-> Insert(<<>>, Nil, ProfileNew(Nil, None, None)), sites |-> {}]

(***************************************************************************)
(* The calls a command makes, in order, each with its outcome.             *)
(***************************************************************************)
Ev(kind, arg, ok) == <<kind, arg, ok>>

\* The environment of one command: F is the set of calls that fail when the
\* command makes them.  Every call but remove_dir_all ends the command when
\* it fails, so the sets below (no failure, or one failing call, with or
\* without a failing remove_dir_all) produce every outcome a command has.
Faults(kinds, args) ==
    LET fatal == {{}} \cup {{<<k, 0>>} : k \in kinds} \cup {{<<"uninstall", s>>} : s \in args}
    IN IF args = {} THEN fatal
       ELSE fatal \cup {F \cup {<<"remove_dir_all", 0>>} : F \in fatal}

Fails(F, kind, arg) == <<kind, arg>> \in F

Outcome(storage, res, events) == [storage |-> storage, res |-> res, events |-> events]

Wrote(events) == \E i \in 1..Len(events) : events[i][1] = "write" /\ events[i][3]

\* Variant: a write keeps the profiles of the file that the writer never saw.
PersistedMerging(old, out) ==
    IF ~Wrote(out.events) THEN old
    ELSE [out.storage EXCEPT !.profiles =
              [k \in DOMAIN old.profiles \cup DOMAIN out.storage.profiles |->
                  IF k \in DOMAIN out.storage.profiles
                  THEN out.storage.profiles[k] ELSE old.profiles[k]]]

Persisted(old, out) == IF Wrote(out.events) THEN out.storage ELSE old

LoadFailed(f) == Outcome(f, "Failed to load the storage", <<Ev("load", 0, FALSE)>>)

Loaded == <<Ev("load", 0, TRUE)>>

(***************************************************************************)
(* Helpers of the standard library, as the commands use them.              *)
(***************************************************************************)
Whitespace == {" ", "\n", "\t", "\r"}

RECURSIVE TrimStart(_)
TrimStart(s) ==
    IF s # <<>> /\ Head(s) \in Whitespace THEN TrimStart(Tail(s)) ELSE s

RECURSIVE TrimEnd(_)
TrimEnd(s) ==
    IF s # <<>> /\ s[Len(s)] \in Whitespace
    THEN TrimEnd(SubSeq(s, 1, Len(s) - 1))
    ELSE s

Trim(s) == TrimEnd(TrimStart(s))

Min(S) == CHOOSE x \in S : \A y \in S : x <= y

RECURSIVE InOrder(_)
InOrder(S) ==
    IF S = {} THEN <<>> ELSE <<Min(S)>> \o InOrder(S \ {Min(S)})

\* Variant: an unknown key falls back to the nil profile.
GetMutOrDefault(map, key) ==
    IF key \in DOMAIN map THEN Some(map[key]) ELSE Some(map[Nil])

GetMut(map, key) == IF key \in DOMAIN map THEN Some(map[key]) ELSE None

StoreValue(target, source) == IF IsSome(source) THEN source ELSE target

(***************************************************************************)
(* apply_profile_template                                                  *)
(***************************************************************************)
ApplyProfileTemplate(template, profile, F) ==
    IF ~template THEN [res |-> "Ok", events |-> <<>>]
    ELSE IF Fails(F, "create_dir_all", 0)
    THEN [res |-> "Failed to create a profile directory",
          events |-> <<Ev("create_dir_all", profile, FALSE)>>]
    ELSE IF Fails(F, "copy", 0)
    THEN [res |-> "Failed to copy a profile template",
          events |-> <<Ev("create_dir_all", profile, TRUE), Ev("copy", profile, FALSE)>>]
    ELSE [res |-> "Ok",
          events |-> <<Ev("create_dir_all", profile, TRUE), Ev("copy", profile, TRUE)>>]

(***************************************************************************)
(* ProfileListCommand::run                                                 *)
(***************************************************************************)
\* Variant: a site without a record is skipped.
RECURSIVE ListSitesSkipping(_, _)
ListSitesSkipping(todo, sites) ==
    IF todo = <<>> THEN [ok |-> TRUE, events |-> <<>>]
    ELSE LET rest == ListSitesSkipping(Tail(todo), sites)
         IN IF Head(todo) \notin sites THEN rest
            ELSE [ok |-> rest.ok,
                  events |-> <<Ev("print_site", Head(todo), TRUE)>> \o rest.events]

RECURSIVE ListSites(_, _)
ListSites(todo, sites) ==
    IF todo = <<>> THEN [ok |-> TRUE, events |-> <<>>]
    ELSE IF Head(todo) \notin sites
    THEN [ok |-> FALSE, events |-> <<Ev("get_site", Head(todo), FALSE)>>]
    ELSE LET rest == ListSites(Tail(todo), sites)
         IN [ok |-> rest.ok,
             events |-> <<Ev("print_site", Head(todo), TRUE)>> \o rest.events]

RECURSIVE ListProfiles(_, _)
ListProfiles(todo, st) ==
    IF todo = <<>> THEN [ok |-> TRUE, events |-> <<>>]
    ELSE LET profile == st.profiles[Head(todo)]
             apps == ListSites(InOrder(profile.sites), st.sites)
             head == <<Ev("print_profile", profile.ulid, TRUE)>> \o apps.events
         IN IF ~apps.ok THEN [ok |-> FALSE, events |-> head]
            ELSE LET rest == ListProfiles(Tail(todo), st)
                 IN [ok |-> rest.ok, events |-> head \o rest.events]

ListRun(f, F) ==
    IF Fails(F, "load", 0) THEN LoadFailed(f)
    ELSE LET listed == ListProfiles(InOrder(DOMAIN f.profiles), f)
         IN Outcome(f,
                    IF listed.ok THEN "Ok" ELSE "Profile with invalid web app",
                    Loaded \o listed.events)

(***************************************************************************)
(* ProfileCreateCommand::_run                                              *)
(***************************************************************************)
\* Variant: the template is applied before the Store is written.
CreateRunTemplateFirst(f, ulid, name, description, template, F) ==
    IF Fails(F, "load", 0) THEN LoadFailed(f)
    ELSE LET profile == ProfileNew(ulid, name, description)
             st == [f EXCEPT !.profiles = Insert(@, ulid, profile)]
             applied == ApplyProfileTemplate(template, ulid, F)
         IN IF applied.res # "Ok"
            THEN Outcome(st, applied.res, Loaded \o applied.events)
            ELSE IF Fails(F, "write", 0)
            THEN Outcome(st, "Failed to write the storage",
                         Loaded \o applied.events \o <<Ev("write", 0, FALSE)>>)
            ELSE Outcome(st, "Ok", Loaded \o applied.events \o <<Ev("write", 0, TRUE)>>)

CreateRun(f, ulid, name, description, template, F) ==
    IF Fails(F, "load", 0) THEN LoadFailed(f)
    ELSE LET profile == ProfileNew(ulid, name, description)
             st == [f EXCEPT !.profiles = Insert(@, ulid, profile)]
         IN IF Fails(F, "write", 0)
            THEN Outcome(st, "Failed to write the storage",
                         Loaded \o <<Ev("write", 0, FALSE)>>)
            ELSE LET applied == ApplyProfileTemplate(template, ulid, F)
                 IN Outcome(st, applied.res,
                            Loaded \o <<Ev("write", 0, TRUE)>> \o applied.events)

(***************************************************************************)
(* ProfileRemoveCommand::run                                               *)
(***************************************************************************)
\* Variant: an empty answer counts as yes.
IsAffirmativeOrEmpty(confirm) == Trim(confirm) \in {<<"Y">>, <<"y">>, <<>>}

IsAffirmative(confirm) == ~(Trim(confirm) # <<"Y">> /\ Trim(confirm) # <<"y">>)

\* The loop over profile.sites: each site found in storage.sites is removed
\* from it and uninstalled; the first failing uninstall returns.
\* Variant: a site without a record ends the loop with an error.
RECURSIVE RemoveSitesStrict(_, _, _)
RemoveSitesStrict(todo, sites, F) ==
    IF todo = <<>> THEN [sites |-> sites, failed |-> FALSE, events |-> <<>>]
    ELSE LET site == Head(todo)
         IN IF site \notin sites
            THEN [sites |-> sites, failed |-> TRUE,
                  events |-> <<Ev("get_site", site, FALSE)>>]
            ELSE IF Fails(F, "uninstall", site)
            THEN [sites |-> sites \ {site}, failed |-> TRUE,
                  events |-> <<Ev("uninstall", site, FALSE)>>]
            ELSE LET rest == RemoveSitesStrict(Tail(todo), sites \ {site}, F)
                 IN [sites |-> rest.sites, failed |-> rest.failed,
                     events |-> <<Ev("uninstall", site, TRUE)>> \o rest.events]

\* Variant: a failing uninstall is logged and the loop goes on.
RECURSIVE RemoveSitesBestEffort(_, _, _)
RemoveSitesBestEffort(todo, sites, F) ==
    IF todo = <<>> THEN [sites |-> sites, failed |-> FALSE, events |-> <<>>]
    ELSE LET site == Head(todo)
         IN IF site \notin sites THEN RemoveSitesBestEffort(Tail(todo), sites, F)
            ELSE LET rest == RemoveSitesBestEffort(Tail(todo), sites \ {site}, F)
                 IN [sites |-> rest.sites, failed |-> rest.failed,
                     events |-> <<Ev("uninstall", site, ~Fails(F, "uninstall", site))>>
                                \o rest.events]

RECURSIVE RemoveSites(_, _, _)
RemoveSites(todo, sites, F) ==
    IF todo = <<>> THEN [sites |-> sites, failed |-> FALSE, events |-> <<>>]
    ELSE LET site == Head(todo)
         IN IF site \notin sites THEN RemoveSites(Tail(todo), sites, F)
            ELSE IF Fails(F, "uninstall", site)
            THEN [sites |-> sites \ {site}, failed |-> TRUE,
                  events |-> <<Ev("uninstall", site, FALSE)>>]
            ELSE LET rest == RemoveSites(Tail(todo), sites \ {site}, F)
                 IN [sites |-> rest.sites, failed |-> rest.failed,
                     events |-> <<Ev("uninstall", site, TRUE)>> \o rest.events]

\* Variant: the nil profile is removed like any other.
RemoveAlways(st, profile, id) == [st EXCEPT !.profiles = MapRemove(@, id)]

\* Variant: the nil profile keeps its sites.
RemoveKeepingSites(st, profile, id) ==
    IF profile.ulid # Nil
    THEN [st EXCEPT !.profiles = MapRemove(@, id)]
    ELSE st

\* Lines 152-157: the record is removed, or for the nil profile cleared.
RemoveOrClear(st, profile, id) ==
    IF profile.ulid # Nil
    THEN [st EXCEPT !.profiles = MapRemove(@, id)]
    ELSE [st EXCEPT !.profiles[profile.ulid].sites = {}]

\* Variant: a data directory that cannot be deleted ends the command.
RemoveRunDirFatal(f, id, quiet, confirm, F) ==
    IF Fails(F, "load", 0) THEN LoadFailed(f)
    ELSE LET got == GetMut(f.profiles, id)
         IN IF ~IsSome(got)
            THEN Outcome(f, "Profile does not exist", Loaded)
            ELSE LET profile == got[1]
                     asked == IF quiet THEN <<>> ELSE <<Ev("read_line", 0, TRUE)>>
                 IN IF ~quiet /\ ~IsAffirmative(confirm)
                    THEN Outcome(f, "Ok", Loaded \o asked \o <<Ev("aborting", 0, TRUE)>>)
                    ELSE IF Fails(F, "remove_dir_all", 0)
                    THEN Outcome(f, "Failed to remove the profile directory",
                                 Loaded \o asked \o <<Ev("remove_dir_all", id, FALSE)>>)
                    ELSE LET loop == RemoveSites(InOrder(profile.sites), f.sites, F)
                             cleared == [f EXCEPT !.sites = loop.sites]
                             done == Loaded \o asked \o <<Ev("remove_dir_all", id, TRUE)>>
                                     \o loop.events
                         IN IF loop.failed
                            THEN Outcome(cleared,
                                         "Failed to uninstall system integration", done)
                            ELSE IF Fails(F, "write", 0)
                            THEN Outcome(RemoveOrClear(cleared, profile, id),
                                         "Failed to write the storage",
                                         done \o <<Ev("write", 0, FALSE)>>)
                            ELSE Outcome(RemoveOrClear(cleared, profile, id), "Ok",
                                         done \o <<Ev("write", 0, TRUE)>>)

RemoveRun(f, id, quiet, confirm, F) ==
    IF Fails(F, "load", 0) THEN LoadFailed(f)
    ELSE LET got == GetMut(f.profiles, id)
         IN IF ~IsSome(got)
            THEN Outcome(f, "Profile does not exist", Loaded)
            ELSE LET profile == got[1]
                     asked == IF quiet THEN <<>> ELSE <<Ev("read_line", 0, TRUE)>>
                 IN IF ~quiet /\ ~IsAffirmative(confirm)
                    THEN Outcome(f, "Ok", Loaded \o asked \o <<Ev("aborting", 0, TRUE)>>)
                    ELSE LET dir == <<Ev("remove_dir_all", id,
                                         ~Fails(F, "remove_dir_all", 0))>>
                             loop == RemoveSites(InOrder(profile.sites), f.sites, F)
                             cleared == [f EXCEPT !.sites = loop.sites]
                             done == Loaded \o asked \o dir \o loop.events
                         IN IF loop.failed
                            THEN Outcome(cleared,
                                         "Failed to uninstall system integration", done)
                            ELSE IF Fails(F, "write", 0)
                            THEN Outcome(RemoveOrClear(cleared, profile, id),
                                         "Failed to write the storage",
                                         done \o <<Ev("write", 0, FALSE)>>)
                            ELSE Outcome(RemoveOrClear(cleared, profile, id), "Ok",
                                         done \o <<Ev("write", 0, TRUE)>>)

(***************************************************************************)
(* ProfileUpdateCommand::run                                               *)
(***************************************************************************)
\* Variant: a field that is not supplied is reset.
StoreFieldsOverwriting(profile, name, description) ==
    [profile EXCEPT !.name = name, !.description = description]

\* Lines 174-175: the two store_value! calls.
StoreFields(profile, name, description) ==
    [profile EXCEPT !.name = StoreValue(@, name),
                    !.description = StoreValue(@, description)]

UpdateRun(f, id, name, description, template, F) ==
    IF Fails(F, "load", 0) THEN LoadFailed(f)
    ELSE LET got == GetMut(f.profiles, id)
         IN IF ~IsSome(got)
            THEN Outcome(f, "Profile does not exist", Loaded)
            ELSE LET profile == StoreFields(got[1], name, description)
                     st == [f EXCEPT !.profiles[profile.ulid] = profile]
                 IN IF Fails(F, "write", 0)
                    THEN Outcome(st, "Failed to write the storage",
                                 Loaded \o <<Ev("write", 0, FALSE)>>)
                    ELSE LET applied == ApplyProfileTemplate(template, id, F)
                         IN Outcome(st, applied.res,
                                    Loaded \o <<Ev("write", 0, TRUE)>> \o applied.events)

(***************************************************************************)
(* _7Zip: detection.  The environment is the registry key (absent, or its  *)
(* two values, each of which may be missing), the PATH variable (unset, or *)
(* a list of directories) and the set of paths that are files.             *)
(***************************************************************************)
Dirs == {<<"C:", "7-Zip">>, <<"D:", "bin">>}

Join(path, name) == Append(path, name)

Descriptor(version, executable) == [version |-> version, executable |-> executable]

\* Variant: a missing InstallLocation leaves the executable unset.
NewFromRegistryLenient(e) ==
    IF ~IsSome(e.registry)
    THEN [ok |-> TRUE, value |-> Descriptor(None, None)]
    ELSE LET key == e.registry[1]
         IN IF ~IsSome(key.DisplayVersion)
            THEN [ok |-> FALSE, value |-> Descriptor(None, None)]
            ELSE [ok |-> TRUE,
                  value |-> Descriptor(Some(key.DisplayVersion[1]),
                                       IF IsSome(key.InstallLocation)
                                       THEN Some(Join(key.InstallLocation[1], "7z.exe"))
                                       ELSE None)]

NewFromRegistry(e) ==
    IF ~IsSome(e.registry)
    THEN [ok |-> TRUE, value |-> Descriptor(None, None)]
    ELSE LET key == e.registry[1]
         IN IF ~IsSome(key.DisplayVersion) \/ ~IsSome(key.InstallLocation)
            THEN [ok |-> FALSE, value |-> Descriptor(None, None)]
            ELSE [ok |-> TRUE,
                  value |-> Descriptor(Some(key.DisplayVersion[1]),
                                       Some(Join(key.InstallLocation[1], "7z.exe")))]

\* Variant: the last directory holding the file wins.
RECURSIVE LastFile(_, _)
LastFile(directories, files) ==
    IF directories = <<>> THEN None
    ELSE LET later == LastFile(Tail(directories), files)
         IN IF IsSome(later) THEN later
            ELSE IF Join(Head(directories), "7z.exe") \in files
            THEN Some(Join(Head(directories), "7z.exe"))
            ELSE None

RECURSIVE FirstFile(_, _)
FirstFile(directories, files) ==
    IF directories = <<>> THEN None
    ELSE IF Join(Head(directories), "7z.exe") \in files
    THEN Some(Join(Head(directories), "7z.exe"))
    ELSE FirstFile(Tail(directories), files)

NewFromPath(e) ==
    LET exe == IF IsSome(e.path) THEN FirstFile(e.path[1], e.files) ELSE None
    IN IF IsSome(exe)
       THEN [ok |-> TRUE, value |-> Descriptor(Some("0.0.0"), exe)]
       ELSE [ok |-> TRUE, value |-> Descriptor(None, None)]

Detected(found, res, probes) ==
    [res |-> res, value |-> found.value, probes |-> probes]

\* Variant: PATH is probed before the registry.
NewPathFirst(e) ==
    LET path == NewFromPath(e)
        registry == NewFromRegistry(e)
    IN IF IsSome(path.value.version)
       THEN Detected(path, "Ok", <<"path">>)
       ELSE IF ~registry.ok
       THEN Detected(registry, "Failed to search 7-Zip in registry", <<"path", "registry">>)
       ELSE Detected(registry, "Ok", <<"path", "registry">>)

New(e) ==
    LET registry == NewFromRegistry(e)
    IN IF ~registry.ok
       THEN Detected(registry, "Failed to search 7-Zip in registry", <<"registry">>)
       ELSE IF IsSome(registry.value.version)
       THEN Detected(registry, "Ok", <<"registry">>)
       ELSE LET path == NewFromPath(e)
            IN IF ~path.ok
               THEN Detected(path, "Failed to search 7-Zip in PATH variable",
                             <<"registry", "path">>)
               ELSE Detected(path, "Ok", <<"registry", "path">>)

(***************************************************************************)
(* run_as_admin.  The outcome of the elevated launch is an input: one of   *)
(* its four calls fails, or the process exits with a code.                 *)
(***************************************************************************)
ExitCodes == {0, 1}

AdminOutcomes ==
    {[fails |-> f, code |-> 1] :
        f \in {"CoInitializeEx", "ShellExecuteExW", "hProcess", "GetExitCodeProcess"}}
        \cup {[fails |-> "none", code |-> c] : c \in ExitCodes}

\* io::Result<ExitStatus>: Err, or Ok(ExitStatus::from_raw(code)).
RunAsAdmin(admin) == [ok |-> admin.fails = "none", code |-> admin.code]

\* Variant: the exit code is not looked at.
SucceededIgnoringStatus(status) == status.ok

\* Line 165: run_as_admin(..).context(EXEC_ERROR)?.success()
Succeeded(status) == status.ok /\ status.code = 0

(***************************************************************************)
(* _7Zip::install.  A NamedTempFile that is dropped before keep() has      *)
(* detached it from its path removes the file.                             *)
(***************************************************************************)
Dropped == <<Ev("drop", 0, TRUE)>>

\* Variant: a failed copy of the response into the file is not noticed.
DownloadUnchecked(F) ==
    IF Fails(F, "tempfile", 0)
    THEN [ok |-> FALSE, res |-> "Failed to create a temporary file",
          events |-> <<Ev("tempfile", 0, FALSE)>>]
    ELSE IF Fails(F, "get", 0)
    THEN [ok |-> FALSE, res |-> "Failed to download the 7-Zip installer",
          events |-> <<Ev("tempfile", 0, TRUE), Ev("get", 0, FALSE)>> \o Dropped]
    ELSE IF Fails(F, "keep", 0)
    THEN [ok |-> FALSE, res |-> "Failed to download the 7-Zip installer",
          events |-> <<Ev("tempfile", 0, TRUE), Ev("get", 0, TRUE),
                       Ev("copy_to", 0, ~Fails(F, "copy_to", 0)),
                       Ev("keep", 0, FALSE)>> \o Dropped]
    ELSE [ok |-> TRUE, res |-> "Ok",
          events |-> <<Ev("tempfile", 0, TRUE), Ev("get", 0, TRUE),
                       Ev("copy_to", 0, ~Fails(F, "copy_to", 0)),
                       Ev("keep", 0, TRUE)>>]

\* Lines 150-159: the temporary file, the download into it, and keep().
Download(F) ==
    IF Fails(F, "tempfile", 0)
    THEN [ok |-> FALSE, res |-> "Failed to create a temporary file",
          events |-> <<Ev("tempfile", 0, FALSE)>>]
    ELSE IF Fails(F, "get", 0)
    THEN [ok |-> FALSE, res |-> "Failed to download the 7-Zip installer",
          events |-> <<Ev("tempfile", 0, TRUE), Ev("get", 0, FALSE)>> \o Dropped]
    ELSE IF Fails(F, "copy_to", 0)
    THEN [ok |-> FALSE, res |-> "Failed to download the 7-Zip installer",
          events |-> <<Ev("tempfile", 0, TRUE), Ev("get", 0, TRUE),
                       Ev("copy_to", 0, FALSE)>> \o Dropped]
    ELSE IF Fails(F, "keep", 0)
    THEN [ok |-> FALSE, res |-> "Failed to download the 7-Zip installer",
          events |-> <<Ev("tempfile", 0, TRUE), Ev("get", 0, TRUE),
                       Ev("copy_to", 0, TRUE), Ev("keep", 0, FALSE)>> \o Dropped]
    ELSE [ok |-> TRUE, res |-> "Ok",
          events |-> <<Ev("tempfile", 0, TRUE), Ev("get", 0, TRUE),
                       Ev("copy_to", 0, TRUE), Ev("keep", 0, TRUE)>>]

Method(op, res, events) == [op |-> op, res |-> res, events |-> events]

InstallRun(F, admin) ==
    LET downloaded == Download(F)
        status == RunAsAdmin(admin)
        executed == downloaded.events \o <<Ev("run_as_admin", status.code, status.ok)>>
    IN IF ~downloaded.ok
       THEN Method("install", downloaded.res, downloaded.events)
       ELSE IF ~Succeeded(status)
       THEN Method("install", "Failed to execute the 7-Zip installer", executed)
       ELSE IF Fails(F, "remove_file", 0)
       THEN Method("install", "Failed to clean up the 7-Zip installer",
                   executed \o <<Ev("remove_file", 0, FALSE)>>)
       ELSE Method("install", "Ok", executed \o <<Ev("remove_file", 0, TRUE)>>)

(***************************************************************************)
(* _7Zip::run.  The outcome of starting the executable is an input: the    *)
(* start fails, or the process exits with a code.                          *)
(***************************************************************************)
SpawnOutcomes == [ok : BOOLEAN, code : ExitCodes]

\* Variant: the executable is started without looking at the descriptor.
RunUnchecked(self, spawn) ==
    IF ~spawn.ok
    THEN Method("run", "Failed to start the process", <<Ev("status", spawn.code, FALSE)>>)
    ELSE Method("run", "Ok", <<Ev("status", spawn.code, TRUE)>>)

RunRun(self, spawn) ==
    IF ~IsSome(self.executable)
    THEN Method("run", "7-Zip is currently not installed", <<>>)
    ELSE IF ~spawn.ok
    THEN Method("run", "Failed to start the process", <<Ev("status", spawn.code, FALSE)>>)
    ELSE Method("run", "Ok", <<Ev("status", spawn.code, TRUE)>>)

NoMethod == Method("None", "Ok", <<>>)

(***************************************************************************)
(* Initial states.                                                         *)
(***************************************************************************)
Answers ==
    { <<"\n">>, <<"n", "\n">>, <<"y", "\n">>, <<"Y", "\n">>, <<" ", "y", " ", "\n">> }

\* A state file written by earlier runs: the nil profile holds some sites,
\* profile 1 the others (or all of them), and at most one Site record is
\* missing.  StorageDefault is the Storage of a first run.
SeededStorage(held, shared, missing) ==
    LET nil == [ProfileNew(Nil, None, None) EXCEPT !.sites = held]
        one == [ProfileNew(1, None, None) EXCEPT
                    !.sites = IF shared THEN SiteIds ELSE SiteIds \ held]
    IN [profiles |-> Insert(Insert(<<>>, Nil, nil), 1, one),
        sites |-> SiteIds \ {missing}]

InitStorages ==
    {StorageDefault} \cup
    {SeededStorage(held, shared, missing) :
        held \in SUBSET SiteIds, shared \in BOOLEAN, missing \in 0..MaxSites}

Call(op, id, name, description, template, quiet, answer, pre, out) ==
    [op |-> op, id |-> id, name |-> name, description |-> description,
     template |-> template, quiet |-> quiet, answer |-> answer, pre |-> pre,
     res |-> out.res, events |-> out.events]

NoCall ==
    Call("None", Nil, None, None, FALSE, FALSE, None, StorageDefault,
         Outcome(StorageDefault, "Ok", <<>>))

Paths == UNION {[1..n -> Dirs] : n \in 0..MaxPathLen}

RegistryKeys ==
    [DisplayVersion : {None, Some("25.00")},
     InstallLocation : {None} \cup {Some(d) : d \in Dirs}]

Environments ==
    [registry : {None} \cup {Some(key) : key \in RegistryKeys},
     path : {None} \cup {Some(p) : p \in Paths},
     files : SUBSET {Join(d, "7z.exe") : d \in Dirs}]

NoEnvironment == [registry |-> None, path |-> None, files |-> {}]

NotDetected == [op |-> "None", res |-> "Ok", value |-> Descriptor(None, None), probes |-> <<>>]

\* Two instances of the utility.  An instance runs one Create or Update: it
\* loads the state file and changes the Storage in memory (Load), then
\* writes it (Write).  Ulid::new gives every Create an identifier of its own.
Procs == {1, 2}

FreshUlid(p) == MaxProfiles + p

Idle ==
    [pc |-> "idle", op |-> "None", id |-> Nil, name |-> None, description |-> None,
     seen |-> 0, pre |-> StorageDefault, out |-> Outcome(StorageDefault, "Ok", <<>>)]

NoProcesses == [procs |-> [p \in Procs |-> Idle], written |-> <<>>]

Init ==
    /\ file \in InitStorages
    /\ last = NoCall
    /\ env = NoEnvironment
    /\ zip = NotDetected
    /\ zlast = NoMethod
    /\ conc = NoProcesses

InitZip ==
    /\ file = StorageDefault
    /\ last = NoCall
    /\ env \in Environments
    /\ zip = NotDetected
    /\ zlast = NoMethod
    /\ conc = NoProcesses

(***************************************************************************)
(* Actions: one per command.                                               *)
(***************************************************************************)
Read(events) == \E i \in 1..Len(events) : events[i][1] = "read_line"

List ==
    /\ last = NoCall
    /\ \E F \in Faults({"load"}, {}) :
           \E out \in {ListRun(file, F)} :
               /\ file' = Persisted(file, out)
               /\ last' = Call("List", Nil, None, None, FALSE, FALSE, None, file, out)
               /\ UNCHANGED <<env, zip, zlast, conc>>

Create ==
    /\ last = NoCall
    /\ \E ulid \in ProfileIds \ ({Nil} \cup DOMAIN file.profiles),
          name \in OptNames, description \in OptDescriptions, template \in BOOLEAN :
           \E F \in Faults({"load", "write"}
                           \cup IF template THEN {"create_dir_all", "copy"} ELSE {}, {}) :
               \E out \in {CreateRun(file, ulid, name, description, template, F)} :
                   /\ file' = Persisted(file, out)
                   /\ last' = Call("Create", ulid, name, description, template, FALSE,
                                   None, file, out)
                   /\ UNCHANGED <<env, zip, zlast, conc>>

Remove ==
    /\ last = NoCall
    /\ \E id \in ProfileIds, quiet \in BOOLEAN :
           \E confirm \in IF quiet THEN {<<>>} ELSE Answers,
              F \in Faults({"load", "write"}, SiteIds) :
               \E out \in {RemoveRun(file, id, quiet, confirm, F)} :
                   /\ file' = Persisted(file, out)
                   /\ last' = Call("Remove", id, None, None, FALSE, quiet,
                                   IF Read(out.events) THEN Some(confirm) ELSE None,
                                   file, out)
                   /\ UNCHANGED <<env, zip, zlast, conc>>

Update ==
    /\ last = NoCall
    /\ \E id \in ProfileIds, name \in OptNames, description \in OptDescriptions,
          template \in BOOLEAN :
           \E F \in Faults({"load", "write"}
                           \cup IF template THEN {"create_dir_all", "copy"} ELSE {}, {}) :
               \E out \in {UpdateRun(file, id, name, description, template, F)} :
                   /\ file' = Persisted(file, out)
                   /\ last' = Call("Update", id, name, description, template, FALSE,
                                   None, file, out)
                   /\ UNCHANGED <<env, zip, zlast, conc>>

\* The process of the command ends; the next command is a new process.
Exit ==
    /\ last # NoCall
    /\ last' = NoCall
    /\ UNCHANGED <<file, env, zip, zlast, conc>>

Detect ==
    /\ zip' = [op |-> "New"] @@ New(env)
    /\ zlast' = NoMethod
    /\ UNCHANGED <<file, last, env, conc>>

Next == List \/ Create \/ Remove \/ Update \/ Exit

Spec == Init /\ [][Next]_vars

\* install and run are methods of a descriptor that detection returned.
HasDescriptor == zip.op = "New" /\ zip.res = "Ok"

Install ==
    /\ HasDescriptor
    /\ \E F \in Faults({"tempfile", "get", "copy_to", "keep", "remove_file"}, {}),
          admin \in AdminOutcomes :
           zlast' = InstallRun(F, admin)
    /\ UNCHANGED <<file, last, env, zip, conc>>

Run ==
    /\ HasDescriptor
    /\ \E spawn \in SpawnOutcomes : zlast' = RunRun(zip.value, spawn)
    /\ UNCHANGED <<file, last, env, zip, conc>>

NextZip == Detect \/ Install \/ Run

SpecZip == InitZip /\ [][NextZip]_vars

\* Process p starts a command: Storage::load and the change in memory.  The
\* outcome of the command on the Storage it loaded is kept with the process.
Loading(p, op, id, name, description, out) ==
    conc' = [conc EXCEPT !.procs[p] =
                [pc |-> IF Wrote(out.events) THEN "loaded" ELSE "done",
                 op |-> op, id |-> id, name |-> name, description |-> description,
                 seen |-> Len(conc.written), pre |-> file, out |-> out]]

ConcCreate(p) ==
    /\ conc.procs[p].pc = "idle"
    /\ \E name \in OptNames, description \in OptDescriptions :
           Loading(p, "Create", FreshUlid(p), name, description,
                   CreateRun(file, FreshUlid(p), name, description, FALSE, {}))
    /\ UNCHANGED <<file, last, env, zip, zlast>>

ConcUpdate(p) ==
    /\ conc.procs[p].pc = "idle"
    /\ \E id \in ProfileIds, name \in OptNames, description \in OptDescriptions :
           Loading(p, "Update", id, name, description,
                   UpdateRun(file, id, name, description, FALSE, {}))
    /\ UNCHANGED <<file, last, env, zip, zlast>>

\* Process p reaches storage.write(): the Storage it holds in memory
\* replaces the state file, whatever was written since p loaded it.
ConcWrite(p) ==
    /\ conc.procs[p].pc = "loaded"
    /\ file' = Persisted(file, conc.procs[p].out)
    /\ conc' = [conc EXCEPT !.procs[p].pc = "done", !.written = Append(@, p)]
    /\ UNCHANGED <<last, env, zip, zlast>>

NextConc == \E p \in Procs : ConcCreate(p) \/ ConcUpdate(p) \/ ConcWrite(p)

SpecConc == Init /\ [][NextConc]_vars

(***************************************************************************)
(* Properties of the profile commands.                                     *)
(***************************************************************************)
Has(kind) == \E i \in 1..Len(last.events) : last.events[i][1] = kind

Called(kind, arg) ==
    {i \in 1..Len(last.events) : last.events[i][1] = kind /\ last.events[i][2] = arg}

LoadedOk == last.events # <<>> /\ last.events[1] = Ev("load", 0, TRUE)

Found == LoadedOk /\ last.id \in DOMAIN last.pre.profiles

Failed(kind) ==
    \E i \in 1..Len(last.events) : last.events[i][1] = kind /\ ~last.events[i][3]

\* A Remove that went past the lookup and the confirmation.
Proceeded == last.op = "Remove" /\ Has("remove_dir_all")

\* C1: every Store in the state file holds a Profile keyed by the nil
\* identifier, whatever Create, Update and Remove commands have run.
C1_NilProfileKept == Nil \in DOMAIN file.profiles

C1_Witness ==
    /\ Proceeded /\ last.id = Nil /\ last.res = "Ok"
    /\ DOMAIN last.pre.profiles # {Nil}
    /\ Nil \in DOMAIN file.profiles

\* C2: after a Remove that proceeded and succeeded, the nil profile is still
\* recorded, with no sites; a non-nil profile is not recorded any more.
C2_RemoveEffect ==
    (Proceeded /\ last.res = "Ok") =>
        IF last.id = Nil
        THEN Nil \in DOMAIN file.profiles /\ file.profiles[Nil].sites = {}
        ELSE last.id \notin DOMAIN file.profiles

C2_Witness ==
    /\ Proceeded /\ last.res = "Ok" /\ last.id = Nil
    /\ last.pre.profiles[Nil].sites # {}

\* C3 (as claimed): a Remove that proceeds on a profile whose N sites all have
\* records, and whose write of the Store does not fail, issues exactly one
\* uninstall call for each of them and leaves none of them in the state file,
\* whether or not an uninstall call fails.
C3_AllSitesTornDown ==
    (/\ Proceeded
     /\ ~Failed("write")
     /\ last.pre.profiles[last.id].sites \subseteq last.pre.sites) =>
        \A s \in last.pre.profiles[last.id].sites :
            /\ Cardinality(Called("uninstall", s)) = 1
            /\ s \notin file.sites

\* C4: a Remove without quiet on an existing profile whose answer, trimmed,
\* is neither "y" nor "Y" ends with success and without any effect: after the
\* question it deletes no directory, removes and uninstalls no site and does
\* not write, and the state file is what it was.  A quiet Remove asks nothing.
C4_DeclinedRemoveHasNoEffect ==
    /\ (/\ last.op = "Remove" /\ ~last.quiet /\ Found
        /\ IsSome(last.answer)
        /\ Trim(last.answer[1]) \notin {<<"y">>, <<"Y">>}) =>
            /\ last.res = "Ok"
            /\ file = last.pre
            /\ \A kind \in {"remove_dir_all", "uninstall", "write"} : ~Has(kind)
    /\ (last.op = "Remove" /\ last.quiet) => (~Has("read_line") /\ last.answer = None)
    /\ (last.op = "Remove" /\ ~last.quiet /\ Found) => Has("read_line")

C4_Witness ==
    /\ last.op = "Remove" /\ ~last.quiet /\ Found
    /\ last.answer = Some(<<"\n">>)
    /\ last.pre.profiles[last.id].sites \cap last.pre.sites # {}
    /\ Has("aborting")

\* C5: an Update of an existing profile changes nothing in the state file but
\* the name and description of that profile, each only when it is supplied
\* (and then, once written, to the supplied value); with neither supplied the
\* state file is what it was, and the command succeeds unless a call of the
\* environment fails.
C5_UpdateOnlySupplied ==
    (last.op = "Update" /\ Found) =>
        LET old == last.pre.profiles[last.id]
            new == file.profiles[last.id]
        IN /\ DOMAIN file.profiles = DOMAIN last.pre.profiles
           /\ file.sites = last.pre.sites
           /\ \A other \in DOMAIN file.profiles \ {last.id} :
                  file.profiles[other] = last.pre.profiles[other]
           /\ new.sites = old.sites /\ new.ulid = old.ulid
           /\ new.name = (IF IsSome(last.name) /\ Has("write") /\ ~Failed("write")
                          THEN last.name ELSE old.name)
           /\ new.description =
                  (IF IsSome(last.description) /\ Has("write") /\ ~Failed("write")
                   THEN last.description ELSE old.description)
           /\ (~IsSome(last.name) /\ ~IsSome(last.description)) => file = last.pre
           /\ (\A i \in 1..Len(last.events) : last.events[i][3]) => last.res = "Ok"

C5_Witness ==
    /\ last.op = "Update" /\ Found /\ last.res = "Ok"
    /\ IsSome(last.name) /\ ~IsSome(last.description)
    /\ ~IsSome(last.pre.profiles[last.id].name)
    /\ IsSome(last.pre.profiles[last.id].description)
    /\ last.pre.profiles[last.id].sites # {}

\* C6: an Update or a Remove of an identifier that has no Profile in the
\* loaded Store fails with "Profile does not exist" having done nothing but
\* load: no question, no directory removed, no uninstall, no template copied,
\* no write, and the state file is what it was.
C6_NotFoundDoesNothing ==
    (/\ last.op \in {"Update", "Remove"}
     /\ LoadedOk
     /\ last.id \notin DOMAIN last.pre.profiles) =>
        /\ last.res = "Profile does not exist"
        /\ last.events = <<Ev("load", 0, TRUE)>>
        /\ file = last.pre

C6_Witness ==
    /\ last.op = "Remove" /\ ~last.quiet
    /\ last.id \notin DOMAIN last.pre.profiles
    /\ last.res = "Profile does not exist"
    /\ last.pre.sites # {}

Index(kind) == CHOOSE i \in 1..Len(last.events) : last.events[i][1] = kind

TemplateErrors ==
    {"Failed to create a profile directory", "Failed to copy a profile template"}

\* C7: Create writes the Store, with the new profile and its empty site set
\* added and nothing else changed, before it touches the profile directory;
\* when the template copy then fails, Create fails and the state file still
\* holds the new profile.
C7_CreatePersistsBeforeTemplate ==
    (last.op = "Create" /\ LoadedOk) =>
        /\ \A kind \in {"create_dir_all", "copy"} :
               Has(kind) =>
                   /\ Has("write") /\ ~Failed("write")
                   /\ Index("write") < Index(kind)
        /\ (Has("write") /\ ~Failed("write")) =>
               /\ last.id \notin DOMAIN last.pre.profiles
               /\ file = [last.pre EXCEPT !.profiles =
                              Insert(@, last.id,
                                     [ulid |-> last.id, name |-> last.name,
                                      description |-> last.description,
                                      sites |-> {}])]
        /\ (Failed("create_dir_all") \/ Failed("copy")) =>
               /\ last.res \in TemplateErrors
               /\ last.id \in DOMAIN file.profiles
               /\ file.profiles[last.id].sites = {}
        /\ last.res \in TemplateErrors => (Failed("create_dir_all") \/ Failed("copy"))

C7_Witness ==
    /\ last.op = "Create" /\ last.template
    /\ last.res = "Failed to copy a profile template"
    /\ last.id \in DOMAIN file.profiles
    /\ last.id \notin DOMAIN last.pre.profiles

Dangling(st) ==
    {s \in SiteIds : \E p \in DOMAIN st.profiles :
                         s \in st.profiles[p].sites /\ s \notin st.sites}

\* C8: List fails with "Profile with invalid web app" whenever a profile of
\* the loaded Store names a site that has no record; when it succeeds it has
\* printed every site of every profile; it never writes, and the state file
\* is what it was.
C8_ListRejectsDangling ==
    (last.op = "List" /\ LoadedOk) =>
        /\ Dangling(last.pre) # {} => last.res = "Profile with invalid web app"
        /\ last.res = "Ok" =>
               \A p \in DOMAIN last.pre.profiles :
                   /\ Called("print_profile", p) # {}
                   /\ \A s \in last.pre.profiles[p].sites :
                          s \in last.pre.sites /\ Called("print_site", s) # {}
        /\ last.res \in {"Ok", "Profile with invalid web app"}
        /\ ~Has("write")
        /\ file = last.pre

C8_Witness ==
    /\ last.op = "List"
    /\ last.res = "Profile with invalid web app"
    /\ Has("print_site")
    /\ Dangling(last.pre) # {}

\* The sites of the removed profile that have no record.
Missing == last.pre.profiles[last.id].sites \ last.pre.sites

\* C9 (as claimed): a Remove that proceeds on a profile naming a site that has
\* no record ends with an error.
C9_RemoveRejectsDangling == (Proceeded /\ Missing # {}) => last.res # "Ok"

\* C9 (amended): a Remove that proceeds skips every site of the profile that
\* has no record: it issues no uninstall call for it and fails only when an
\* uninstall call or the write fails; otherwise it succeeds, and no site of the
\* profile is left in the state file.
C9_RemoveSkipsDangling ==
    Proceeded =>
        /\ \A s \in Missing : Called("uninstall", s) = {}
        /\ last.res # "Ok" => (Failed("uninstall") \/ Failed("write"))
        /\ last.res = "Ok" =>
               file.sites = last.pre.sites \ last.pre.profiles[last.id].sites

C9_Witness ==
    /\ Proceeded /\ last.res = "Ok"
    /\ Missing # {}
    /\ Has("uninstall")

\* The calls of the last command of one kind, as positions in its sequence.
Positions(kind) == {i \in 1..Len(last.events) : last.events[i][1] = kind}

\* The sites of the profile a Remove names that have a Site record.
Recorded == last.pre.profiles[last.id].sites \cap last.pre.sites

\* C16: in a Remove that proceeds, a data directory that cannot be deleted
\* does not end the command: with no other failure the sites are removed,
\* the profile record is updated, the Store is written and the result is
\* Ok.  A failing write makes the command return an error and leaves the
\* state file as it was.  The write is the last call, after the deletion of
\* the directory and the uninstall call of every site.
C16_DirectoryBestEffortWriteFatal ==
    Proceeded =>
        /\ (Failed("remove_dir_all") /\ ~Failed("uninstall") /\ ~Failed("write")) =>
               /\ last.res = "Ok"
               /\ Has("write")
               /\ file.sites = last.pre.sites \ Recorded
               /\ IF last.id = Nil
                  THEN file.profiles[Nil].sites = {}
                  ELSE last.id \notin DOMAIN file.profiles
        /\ Failed("write") =>
               /\ last.res = "Failed to write the storage"
               /\ file = last.pre
        /\ Has("write") =>
               /\ Index("write") = Len(last.events)
               /\ \A i \in Positions("remove_dir_all") \cup Positions("uninstall") :
                      i < Index("write")
               /\ \A s \in Recorded : Cardinality(Called("uninstall", s)) = 1

C16_Witness ==
    /\ Proceeded /\ Failed("remove_dir_all") /\ last.res = "Ok"
    /\ Recorded # {} /\ Has("uninstall") /\ file # last.pre

\* C18: when an uninstall call fails during a Remove, the command returns the
\* uninstall error at once and writes nothing: the state file is the one
\* before the call, with the profile and all of its sites, although the data
\* directory was deleted before and the sites before the failing one were
\* uninstalled.
C18_UninstallFailureWritesNothing ==
    (last.op = "Remove" /\ Failed("uninstall")) =>
        /\ last.res = "Failed to uninstall system integration"
        /\ ~Has("write")
        /\ file = last.pre
        /\ last.id \in DOMAIN file.profiles
        /\ file.profiles[last.id].sites = last.pre.profiles[last.id].sites
        /\ Recorded \subseteq file.sites
        /\ ~last.events[Len(last.events)][3]
        /\ last.events[Len(last.events)][1] = "uninstall"
        /\ \A i \in Positions("uninstall") : i < Len(last.events) => last.events[i][3]
        /\ \A i \in Positions("remove_dir_all") : i < Len(last.events)
        /\ Positions("remove_dir_all") # {}

C18_Witness ==
    /\ last.op = "Remove" /\ Failed("uninstall")
    /\ ~Failed("remove_dir_all")
    /\ \E i \in Positions("uninstall") : last.events[i][3]

\* Every site a profile names has a Site record.
Referential(st) == \A p \in DOMAIN st.profiles : st.profiles[p].sites \subseteq st.sites

\* No site is named by two profiles.
Unshared(st) ==
    \A p, q \in DOMAIN st.profiles :
        p # q => st.profiles[p].sites \cap st.profiles[q].sites = {}

\* The sites the profiles other than the one named by the command refer to.
OthersSites == UNION {last.pre.profiles[q].sites : q \in DOMAIN last.pre.profiles \ {last.id}}

\* C19: a Create, Update or Remove that starts from a state file in which
\* every site of every profile has a record and no site belongs to two
\* profiles leaves a state file with the same two properties, and a Remove
\* deletes the record of no site of another profile.
C19_ReferentialIntegrityKept ==
    (/\ last.op \in {"Create", "Update", "Remove"}
     /\ Referential(last.pre) /\ Unshared(last.pre)) =>
        /\ Referential(file) /\ Unshared(file)
        /\ last.op = "Remove" => OthersSites \subseteq file.sites

C19_Witness ==
    /\ Proceeded /\ last.res = "Ok" /\ last.id = Nil
    /\ Referential(last.pre) /\ Unshared(last.pre)
    /\ Recorded # {} /\ OthersSites # {}
    /\ Recorded \cap file.sites = {}

(***************************************************************************)
(* Properties of two instances running at the same time.                   *)
(***************************************************************************)
Proc(p) == conc.procs[p]

\* p wrote, then q wrote, and both had loaded the state file before.
BothLoadedThenWrote(p, q) ==
    /\ conc.written = <<p, q>>
    /\ Proc(p).seen = 0 /\ Proc(q).seen = 0

\* q's command gives the field of the profile that p's Update changed.
Supplies(q, id, field) ==
    /\ Proc(q).op = "Update" /\ Proc(q).id = id
    /\ IsSome(IF field = "name" THEN Proc(q).name ELSE Proc(q).description)

\* The change p made in memory is not in the state file.
Lost(p, q) ==
    /\ Proc(p).op = "Create" => Proc(p).id \notin DOMAIN file.profiles
    /\ Proc(p).op = "Update" =>
           /\ (IsSome(Proc(p).name) /\ ~Supplies(q, Proc(p).id, "name")) =>
                  file.profiles[Proc(p).id].name = Proc(p).pre.profiles[Proc(p).id].name
           /\ (IsSome(Proc(p).description) /\ ~Supplies(q, Proc(p).id, "description")) =>
                  file.profiles[Proc(p).id].description
                      = Proc(p).pre.profiles[Proc(p).id].description

\* C15: no lock keeps two instances apart.  When both have loaded the state
\* file before either writes it, the file after the two writes is the
\* Storage of the second writer alone, and the change of the first writer is
\* not in it.
C15_LastWriterWins ==
    \A p, q \in Procs :
        (p # q /\ BothLoadedThenWrote(p, q)) =>
            /\ file = Proc(q).out.storage
            /\ Lost(p, q)

C15_Witness ==
    \E p, q \in Procs :
        /\ p # q /\ BothLoadedThenWrote(p, q)
        /\ Proc(p).op = "Create" /\ Proc(q).op = "Update"
        /\ IsSome(Proc(q).name)
        /\ Proc(p).id \in DOMAIN Proc(p).out.storage.profiles
        /\ Proc(p).id \notin DOMAIN file.profiles
        /\ file.profiles[Proc(q).id].name = Proc(q).name

(***************************************************************************)
(* Properties of the detection.                                            *)
(***************************************************************************)
\* The key exists and holds both values.
RegistryHasVersion ==
    /\ IsSome(env.registry)
    /\ IsSome(env.registry[1].DisplayVersion)
    /\ IsSome(env.registry[1].InstallLocation)

OnPath ==
    /\ IsSome(env.path)
    /\ \E i \in 1..Len(env.path[1]) : Append(env.path[1][i], "7z.exe") \in env.files

Probed(probe) == \E i \in 1..Len(zip.probes) : zip.probes[i] = probe

\* C10: when the registry key gives a version, detection succeeds with the
\* descriptor made of DisplayVersion and InstallLocation joined with 7z.exe,
\* and has not looked at PATH, whether or not a 7z.exe is on it; PATH is
\* looked at only when the key cannot be opened, after the registry.
C10_RegistryFirst ==
    zip.op = "New" =>
        /\ RegistryHasVersion =>
               /\ zip.res = "Ok"
               /\ zip.value =
                      [version |-> Some(env.registry[1].DisplayVersion[1]),
                       executable |->
                           Some(Append(env.registry[1].InstallLocation[1], "7z.exe"))]
               /\ ~Probed("path")
        /\ Probed("path") => (~IsSome(env.registry) /\ zip.probes = <<"registry", "path">>)

C10_Witness ==
    /\ zip.op = "New" /\ zip.res = "Ok"
    /\ RegistryHasVersion /\ OnPath
    /\ env.path[1] # <<>>
    /\ Append(env.path[1][1], "7z.exe") \in env.files
    /\ zip.value.executable # Some(Append(env.path[1][1], "7z.exe"))

\* The first directory of PATH that holds a file 7z.exe.
FirstOnPath ==
    LET hits == {i \in 1..Len(env.path[1]) : Append(env.path[1][i], "7z.exe") \in env.files}
    IN env.path[1][CHOOSE i \in hits : \A j \in hits : i <= j]

PathFinding ==
    /\ zip.value.version = Some("0.0.0")
    /\ zip.value.version # Some("")
    /\ zip.value.executable = Some(Append(FirstOnPath, "7z.exe"))

\* C11 (as claimed): when the registry key cannot be opened and a directory
\* of PATH holds 7z.exe, detection reports the marker version and the binary
\* of the first such directory, and fails.
C11_PathFindingFails ==
    (zip.op = "New" /\ ~IsSome(env.registry) /\ OnPath) =>
        (PathFinding /\ zip.res # "Ok")

\* C11 (amended): when the registry key cannot be opened and a directory of
\* PATH holds 7z.exe, detection succeeds with the marker version "0.0.0" and
\* the binary of the first such directory.
C11_PathFindingSucceeds ==
    (zip.op = "New" /\ ~IsSome(env.registry) /\ OnPath) =>
        (PathFinding /\ zip.res = "Ok" /\ zip.probes = <<"registry", "path">>)

C11_Witness ==
    /\ zip.op = "New" /\ ~IsSome(env.registry) /\ OnPath
    /\ Len(env.path[1]) = 2
    /\ env.path[1][1] # env.path[1][2]
    /\ Append(env.path[1][1], "7z.exe") \in env.files
    /\ Append(env.path[1][2], "7z.exe") \in env.files
    /\ zip.value.executable = Some(Append(env.path[1][1], "7z.exe"))

(***************************************************************************)
(* Properties of run and install.                                          *)
(***************************************************************************)
ZHas(kind) == \E i \in 1..Len(zlast.events) : zlast.events[i][1] = kind

ZFailed(kind) ==
    \E i \in 1..Len(zlast.events) : zlast.events[i][1] = kind /\ ~zlast.events[i][3]

ZIndex(kind) == CHOOSE i \in 1..Len(zlast.events) : zlast.events[i][1] = kind

ZCount(kind) == Cardinality({i \in 1..Len(zlast.events) : zlast.events[i][1] = kind})

NotInstalled == "7-Zip is currently not installed"

\* C12: when the registry key cannot be opened and no directory of PATH holds
\* 7z.exe, detection succeeds with a descriptor whose version and executable
\* are both unset, and a run on it fails with the not-installed error without
\* starting a process.
C12_AbsentToolIsNotAnError ==
    (zip.op = "New" /\ ~IsSome(env.registry) /\ ~OnPath) =>
        /\ zip.res = "Ok"
        /\ zip.value = [version |-> None, executable |-> None]
        /\ zlast.op = "run" => (zlast.res = NotInstalled /\ zlast.events = <<>>)

C12_Witness ==
    /\ zip.op = "New" /\ ~IsSome(env.registry) /\ ~OnPath
    /\ IsSome(env.path) /\ env.path[1] # <<>> /\ env.files # {}
    /\ zlast.op = "run" /\ zlast.res = NotInstalled

\* The installer was launched and did not exit with success.
InstallerFailed ==
    \E i \in 1..Len(zlast.events) :
        /\ zlast.events[i][1] = "run_as_admin"
        /\ (~zlast.events[i][3] \/ zlast.events[i][2] # 0)

\* C13: an install whose elevated installer fails to launch or exits with a
\* code other than 0 returns "Failed to execute the 7-Zip installer"; the
\* launch is the last call it made, and it made it once.
C13_InstallerFailureIsTerminal ==
    zlast.op = "install" =>
        /\ InstallerFailed =>
               /\ zlast.res = "Failed to execute the 7-Zip installer"
               /\ ZCount("run_as_admin") = 1
               /\ ZIndex("run_as_admin") = Len(zlast.events)
        /\ zlast.res = "Ok" => (ZHas("run_as_admin") /\ ~InstallerFailed)

C13_Witness ==
    /\ zlast.op = "install"
    /\ zlast.res = "Failed to execute the 7-Zip installer"
    /\ \E i \in 1..Len(zlast.events) : zlast.events[i] = Ev("run_as_admin", 1, TRUE)

\* C14 (as claimed): after the elevated installer exited with success, install
\* removes the temporary file, and a failure to remove it does not make
\* install fail.
C14_CleanupFailureIsNotFatal ==
    (zlast.op = "install" /\ ZHas("run_as_admin") /\ ~InstallerFailed) =>
        /\ ZHas("remove_file")
        /\ ZFailed("remove_file") => zlast.res = "Ok"

InstallSteps == <<"tempfile", "get", "copy_to", "keep", "run_as_admin", "remove_file">>

\* The calls of the flow, without the drop of the temporary file.
Steps == SelectSeq(zlast.events, LAMBDA e : e[1] # "drop")

\* The steps are made in order, and one is made only after every earlier one
\* succeeded.
InOrderUntilFailure ==
    /\ Len(Steps) \in 1..Len(InstallSteps)
    /\ \A i \in 1..Len(Steps) : Steps[i][1] = InstallSteps[i]
    /\ \A i \in 1..(Len(Steps) - 1) :
           Steps[i][3] /\ (Steps[i][1] = "run_as_admin" => Steps[i][2] = 0)
    /\ zlast.res = "Ok" <=> (Len(Steps) = Len(InstallSteps) /\ Steps[Len(Steps)][3])

\* C17 (as claimed): the steps of install are made in order, each only after
\* the earlier ones succeeded, and the temporary file is removed, by
\* remove_file or otherwise, only after the installer exited with success.
C17_FileRemovedOnlyAfterSuccess ==
    zlast.op = "install" =>
        /\ InOrderUntilFailure
        /\ (ZHas("remove_file") \/ ZHas("drop")) =>
               (ZHas("run_as_admin") /\ ~InstallerFailed)

\* C17 (amended): the steps of install are made in order, each only after the
\* earlier ones succeeded, so the installer is launched only on a file that
\* was created, fully downloaded and kept; remove_file is called only after
\* the installer exited with success; the temporary file is dropped, and so
\* removed, exactly when the download fails after the file was created, and
\* then nothing is launched.
C17_InstallOrder ==
    zlast.op = "install" =>
        /\ InOrderUntilFailure
        /\ ZHas("run_as_admin") =>
               \A kind \in {"tempfile", "get", "copy_to", "keep"} :
                   /\ ZHas(kind) /\ ~ZFailed(kind)
                   /\ ZIndex(kind) < ZIndex("run_as_admin")
        /\ ZHas("remove_file") =>
               /\ ZHas("run_as_admin") /\ ~InstallerFailed
               /\ ZIndex("run_as_admin") < ZIndex("remove_file")
        /\ ZHas("drop") <=> (ZFailed("get") \/ ZFailed("copy_to") \/ ZFailed("keep"))
        /\ ZHas("drop") =>
               /\ zlast.events[Len(zlast.events)][1] = "drop"
               /\ ~ZHas("run_as_admin") /\ ~ZHas("remove_file")
               /\ zlast.res = "Failed to download the 7-Zip installer"

C17_Witness ==
    /\ zlast.op = "install"
    /\ ZFailed("copy_to") /\ ZHas("drop")
    /\ ~ZHas("run_as_admin")

\* C20: a descriptor that detection returned has a version exactly when it
\* has an executable, and a run on it fails with the not-installed error
\* exactly when it has no version.
C20_VersionIffExecutable ==
    (zip.op = "New" /\ zip.res = "Ok") =>
        /\ IsSome(zip.value.version) <=> IsSome(zip.value.executable)
        /\ zlast.op = "run" =>
               (zlast.res = NotInstalled <=> ~IsSome(zip.value.version))

C20_Witness ==
    /\ zip.op = "New" /\ zip.res = "Ok"
    /\ RegistryHasVersion
    /\ zlast.op = "run" /\ zlast.res = "Ok"

====
